---- MODULE Spec2Model ----
(***************************************************************************)
(* Model of interfaces/lpsolver/variable.py: the Variable class of the     *)
(* linear-program interface.  A Variable keeps a registry of named links   *)
(* (raw_linked_idxs, linked_type), gets its own raw index by set_idx, and  *)
(* has its raw indices translated into global ones by apply_offsets.       *)
(*                                                                         *)
(* The state is the fields of a small population of Variable objects.      *)
(* Each action is one call of a method on one of them; the call, its       *)
(* arguments and the way it ended (normal return, or the exception that    *)
(* left it) are recorded in `last`.                                        *)
(***************************************************************************)
EXTENDS Integers, Sequences, FiniteSets, TLC

\* ------------------------------------------------------------------ bounds

\* Number of method calls in a run.
MaxCalls == 4

\* Number of method calls in a run that also calls the constraint templates.
MaxTCalls == 3

\* ------------------------------------------------------------ input domains

\* The Variable objects of the model.
Vars == {"x", "y", "z"}

\* Type tags given to the constructor.  "n1" extends "n" by a digit.
Types == {"n", "n1"}

\* The constructor arguments of the three objects.
TypeChoices == {("x" :> "n") @@ ("y" :> "n") @@ ("z" :> "n1")}

\* Link names passed to add_link / add_links; own_idx is the reserved one.
Names == {"own_idx", "foo"}

\* Raw indices handed to set_idx.
RawIdx == {0, 10}

\* Offset maps handed to apply_offsets: one that knows every type, one that
\* moves both blocks, one that lacks the type "n1".
OffsetMaps == {("n" :> 0) @@ ("n1" :> 3), ("n" :> 3) @@ ("n1" :> 20), ("n" :> 3)}

\* Collections handed to add_links: two distinct objects, in either order.
VarSeqs == {s \in Vars \X Vars : s[1] # s[2]}

\* The object the template, coefficient and grounding calls are made on.
Subjects == {"x"}

\* Scalars handed to iff_exactly / implies_at_least (N) and has_flow_over
\* (max_flow), and to set_coeff.
Scalars == {2, 5}

\* Grounding attribute names and the keyword arguments handed to add_grounding.
Attribs == {"a", "b"}

GroundingArgs == {("a" :> 1), ("a" :> 2) @@ ("b" :> 1)}

\* Attribute names handed to retrieve_grounding: one or two of them.
AttribSeqs == {<<k>> : k \in Attribs} \cup (Attribs \X Attribs)

\* Absent index (no set_idx call yet, or a call that returned no index).
NoIdx == 0 - 1

NoOffsets == [t \in {} |-> 0]

\* ------------------------------------------------------------------- state

VARIABLES
    type,             \* self.type
    raw_linked_idxs,  \* self.raw_linked_idxs : name -> set of raw indices
    linked_type,      \* self.linked_type     : name -> type
    linked_idxs,      \* self.linked_idxs     : name -> list of global indices
    last,             \* the most recent call and how it ended
    given,            \* the argument of the most recent set_idx call, per object
    applied,          \* the objects apply_offsets was called on
    ncalls,           \* number of calls made
    constraints,      \* self.constraints : list of Constraint objects
    coeff,            \* self.coeff
    grounding,        \* self.grounding   : attribute name -> value
    upper_bound,      \* self.upper_bound, the attribute has_flow_over assigns
    targs             \* *args of the most recent template call

vars ==
    <<type, raw_linked_idxs, linked_type, linked_idxs, last, given, applied, ncalls,
      constraints, coeff, grounding, upper_bound, targs>>

\* The fields the link registry and the index translator never touch.
others == <<constraints, coeff, grounding, upper_bound, targs>>

\* The fields of the link registry and the index translator.
registry == <<raw_linked_idxs, linked_type, linked_idxs, given, applied>>

\* ----------------------------------------------------------------- helpers

\* d[k] = v on a Python dict.
Put(d, k, v) == [n \in DOMAIN d \cup {k} |-> IF n = k THEN v ELSE d[n]]

EmptyDict == [n \in {} |-> 0]

\* Iteration order of a Python set of small non-negative ints: CPython keeps an
\* int at slot hash & mask and the indices used here occupy distinct slots in
\* ascending order, so iteration is ascending.
First(S) == CHOOSE m \in S : \A k \in S : m <= k

RECURSIVE ListOf(_)
ListOf(S) == IF S = {} THEN <<>> ELSE <<First(S)>> \o ListOf(S \ {First(S)})

SeqRange(s) == {s[i] : i \in 1..Len(s)}

\* str(i) of a non-negative int.
Digit(d) ==
    CASE d = 0 -> "0" [] d = 1 -> "1" [] d = 2 -> "2" [] d = 3 -> "3"
      [] d = 4 -> "4" [] d = 5 -> "5" [] d = 6 -> "6" [] d = 7 -> "7"
      [] d = 8 -> "8" [] OTHER -> "9"

RECURSIVE Str(_)
Str(i) == IF i < 10 THEN Digit(i) ELSE Str(i \div 10) \o Digit(i % 10)

\* ----------------------------------------------------------------- queries

Ok(v) == [outcome |-> "ok", value |-> v]
Raised(e) == [outcome |-> e, value |-> NoIdx]

\* Variable.raw_idx: list(self.raw_linked_idxs['own_idx'])[0]
raw_idx(self) ==
    IF "own_idx" \notin DOMAIN raw_linked_idxs[self] THEN Raised("KeyError")
    ELSE IF raw_linked_idxs[self]["own_idx"] = {} THEN Raised("IndexError")
    ELSE Ok(First(raw_linked_idxs[self]["own_idx"]))

\* Variable.idx: self.linked_idxs['own_idx'][0]
idx(self) ==
    IF "own_idx" \notin DOMAIN linked_idxs[self] THEN Raised("KeyError")
    ELSE IF linked_idxs[self]["own_idx"] = <<>> THEN Raised("IndexError")
    ELSE Ok(linked_idxs[self]["own_idx"][1])

\* Variable.get_unique_id: self.type + str(list(...)[0])
get_unique_id(self) ==
    IF raw_idx(self).outcome = "ok"
    THEN [outcome |-> "ok", value |-> type[self] \o Str(raw_idx(self).value)]
    ELSE [outcome |-> raw_idx(self).outcome, value |-> ""]

\* Variable.has_link
has_link(self, name) == name \in DOMAIN linked_type[self]

\* Variable.readable_links(raw=True): the string is not modelled, only whether
\* building it raises (a name of raw_linked_idxs missing from linked_type).
readable_links_raw(self) ==
    IF DOMAIN raw_linked_idxs[self] \subseteq DOMAIN linked_type[self]
    THEN "ok" ELSE "KeyError"

\* ------------------------------------------------------------ method pieces

\* set_idx, line 81: raw_linked_idxs['own_idx'] = set([idx])
SetOwnIdx(rl, i) == Put(rl, "own_idx", {i})

\* set_idx, line 82: linked_type['own_idx'] = self.type
SetOwnType(lt, t) == Put(lt, "own_idx", t)

\* The type check left out.
TypeConflictNever(lt, name, t) == FALSE

\* The type check with its comparison inverted.
TypeConflictInverted(lt, name, t) == name \in DOMAIN lt /\ lt[name] = t

\* add_link / add_links: the elif of the type check.
TypeConflict(lt, name, t) == name \in DOMAIN lt /\ lt[name] # t

\* add_link / add_links: the if of the type check.
BindType(lt, name, t) == IF name \notin DOMAIN lt THEN Put(lt, name, t) ELSE lt

\* The else branch toggling membership (^=) instead of adding (|=).
AddIdxToggle(rl, name, i) ==
    IF name \notin DOMAIN rl
    THEN Put(rl, name, {i})
    ELSE [rl EXCEPT ![name] = (@ \cup {i}) \ (@ \cap {i})]

\* add_link, lines 109-112.
AddIdx(rl, name, i) ==
    IF name \notin DOMAIN rl
    THEN Put(rl, name, {i})
    ELSE [rl EXCEPT ![name] = @ \cup {i}]

\* The raw indices var.raw_idx() yields for the elements of vs before the first
\* one that raises (all of them when none raises).
RECURSIVE RawPrefix(_)
RawPrefix(vs) ==
    IF vs = <<>> \/ raw_idx(Head(vs)).outcome # "ok"
    THEN {}
    ELSE {raw_idx(Head(vs)).value} \cup RawPrefix(Tail(vs))

AllHaveIdx(vs) == \A i \in 1..Len(vs) : raw_idx(vs[i]).outcome = "ok"

\* add_links, lines 129-132.  The list comprehension of line 130 is evaluated
\* before the assignment, so a raising raw_idx() stores nothing; update() of
\* line 132 consumes its generator element by element, so the indices before
\* a raising raw_idx() are already in the set.
AddIdxs(rl, name, vs) ==
    IF name \notin DOMAIN rl
    THEN IF AllHaveIdx(vs) THEN Put(rl, name, RawPrefix(vs)) ELSE rl
    ELSE [rl EXCEPT ![name] = @ \cup RawPrefix(vs)]

\* The loop copying the raw indices without adding the offset.
TranslateNoOffset(rl, lt, li, offsets) ==
    LET known == {n \in DOMAIN rl : lt[n] \in DOMAIN offsets}
    IN  [n \in DOMAIN li \cup known |->
            IF n \in known THEN ListOf(rl[n]) ELSE li[n]]

\* The loop running over the names of linked_type, a name without raw indices
\* getting an empty list.
TranslateOverTypes(rl, lt, li, offsets) ==
    LET known == {n \in DOMAIN lt : lt[n] \in DOMAIN offsets}
    IN  [n \in DOMAIN li \cup known |->
            IF n \in known
            THEN IF n \in DOMAIN rl
                 THEN [k \in 1..Cardinality(rl[n]) |->
                          ListOf(rl[n])[k] + offsets[lt[n]]]
                 ELSE <<>>
            ELSE li[n]]

\* apply_offsets, lines 143-150: the loop over raw_linked_idxs.
Translate(rl, lt, li, offsets) ==
    LET known == {n \in DOMAIN rl : lt[n] \in DOMAIN offsets}
    IN  [n \in DOMAIN li \cup known |->
            IF n \in known
            THEN [k \in 1..Cardinality(rl[n]) |-> ListOf(rl[n])[k] + offsets[lt[n]]]
            ELSE li[n]]

\* ------------------------------------------------------------------ actions

Call(op, self, name, vs, i, offsets, outcome) ==
    /\ last' = [op |-> op, self |-> self, name |-> name, vars |-> vs, idx |-> i,
                offsets |-> offsets, outcome |-> outcome,
                again |-> /\ last.op = op /\ last.self = self /\ last.name = name
                          /\ last.vars = vs /\ last.idx = i
                          /\ last.offsets = offsets /\ last.outcome = "ok"]
    /\ ncalls' = ncalls + 1

\* Variable.set_idx
set_idx(self, i) ==
    /\ ncalls < MaxCalls
    /\ raw_linked_idxs' = [raw_linked_idxs EXCEPT ![self] = SetOwnIdx(@, i)]
    /\ linked_type' = [linked_type EXCEPT ![self] = SetOwnType(@, type[self])]
    /\ given' = [given EXCEPT ![self] = i]
    /\ Call("set_idx", self, "", <<>>, i, NoOffsets, "ok")
    /\ UNCHANGED <<type, linked_idxs, applied, others>>

\* Variable.add_link
add_link(self, name, var) ==
    /\ ncalls < MaxCalls
    /\ IF TypeConflict(linked_type[self], name, type[var])
       THEN /\ Call("add_link", self, name, <<var>>, NoIdx, NoOffsets,
                    IF readable_links_raw(self) = "ok" THEN "Exception" ELSE "KeyError")
            /\ UNCHANGED <<raw_linked_idxs, linked_type>>
       ELSE /\ linked_type' =
                  [linked_type EXCEPT ![self] = BindType(@, name, type[var])]
            /\ IF raw_idx(var).outcome = "ok"
               THEN /\ raw_linked_idxs' = [raw_linked_idxs EXCEPT
                           ![self] = AddIdx(@, name, raw_idx(var).value)]
                    /\ Call("add_link", self, name, <<var>>, NoIdx, NoOffsets, "ok")
               ELSE /\ UNCHANGED raw_linked_idxs
                    /\ Call("add_link", self, name, <<var>>, NoIdx, NoOffsets,
                            raw_idx(var).outcome)
    /\ UNCHANGED <<type, linked_idxs, given, applied, others>>

\* Variable.add_links
add_links(self, name, vs) ==
    /\ ncalls < MaxCalls
    /\ IF TypeConflict(linked_type[self], name, type[vs[1]])
       THEN /\ Call("add_links", self, name, vs, NoIdx, NoOffsets,
                    IF readable_links_raw(self) = "ok" THEN "Exception" ELSE "KeyError")
            /\ UNCHANGED <<raw_linked_idxs, linked_type>>
       ELSE /\ linked_type' =
                  [linked_type EXCEPT ![self] = BindType(@, name, type[vs[1]])]
            /\ raw_linked_idxs' = [raw_linked_idxs EXCEPT ![self] = AddIdxs(@, name, vs)]
            /\ Call("add_links", self, name, vs, NoIdx, NoOffsets,
                    IF AllHaveIdx(vs) THEN "ok" ELSE "KeyError")
    /\ UNCHANGED <<type, linked_idxs, given, applied, others>>

\* apply_offsets adding the offsets to the raw indices in place as well.
apply_offsets_in_place(self, offsets) ==
    /\ ncalls < MaxCalls
    /\ linked_idxs' = [linked_idxs EXCEPT ![self] =
          Translate(raw_linked_idxs[self], linked_type[self], @, offsets)]
    /\ raw_linked_idxs' = [raw_linked_idxs EXCEPT ![self] =
          [n \in DOMAIN @ |->
              IF linked_type[self][n] \in DOMAIN offsets
              THEN {r + offsets[linked_type[self][n]] : r \in @[n]}
              ELSE @[n]]]
    /\ Call("apply_offsets", self, "", <<>>, NoIdx, offsets, "ok")
    /\ applied' = applied \cup {self}
    /\ UNCHANGED <<type, linked_type, given, others>>

\* Variable.apply_offsets
apply_offsets(self, offsets) ==
    /\ ncalls < MaxCalls
    /\ IF readable_links_raw(self) = "ok"
       THEN /\ linked_idxs' = [linked_idxs EXCEPT ![self] =
                   Translate(raw_linked_idxs[self], linked_type[self], @, offsets)]
            /\ Call("apply_offsets", self, "", <<>>, NoIdx, offsets, "ok")
       ELSE /\ UNCHANGED linked_idxs
            /\ Call("apply_offsets", self, "", <<>>, NoIdx, offsets, "KeyError")
    /\ applied' = applied \cup {self}
    /\ UNCHANGED <<type, raw_linked_idxs, linked_type, given, others>>

\* ------------------------------------------------------ constraint templates

\* Python values that meet in one list: an int and a str are told apart.
Num(i) == <<"int", i>>
Sym(str) == <<"str", str>>

\* -a of an int a.
Neg(a) == Num(0 - a[2])

\* The Constraint collaborator: keeps the terms, their coefficients, the
\* operator and the right-hand side it is constructed with.
Constraint(terms, coeffs, op, rhs) ==
    [terms |-> terms, coeffs |-> coeffs, op |-> op, rhs |-> rhs]

\* The attributes an instance can hold.
Slots ==
    {"type", "grounding", "linked_idxs", "raw_linked_idxs", "linked_type",
     "constraints", "coeff", "metadata"}

\* self.<attr> = value on an object with __slots__ and no __dict__.
SetAttr(attr) == IF attr \in Slots THEN "ok" ELSE "AttributeError"

\* The new constraint put in front of the list instead of at its end.
AddConstraintFront(cs, c) == <<c>> \o cs

\* self.constraints.append(c)
AddConstraint(cs, c) == Append(cs, c)

\* The Constraint each template constructs from its *args.
General(terms, coeffs, op, rhs) == Constraint(terms, coeffs, op, rhs)

Iff(link) ==
    Constraint(<<Sym("own_idx"), link>>, <<link, Num(-1)>>, "=", Num(0))

IffExactly(N, link) ==
    Constraint(<<Sym("own_idx"), link>>, <<N, Num(-1)>>, "=", Num(0))

\* implies with the coefficient 1 on the variable's own term.
ImpliesUnit(link) ==
    Constraint(<<Sym("own_idx"), link>>, <<Num(1), Num(-1)>>, "<=", Num(0))

Implies(link) ==
    Constraint(<<Sym("own_idx"), link>>, <<link, Num(-1)>>, "<=", Num(0))

ImpliesAtLeast(N, link) ==
    Constraint(<<Sym("own_idx"), link>>, <<N, Num(-1)>>, "<=", Num(0))

HasFlowOver(link, max_flow) ==
    Constraint(<<Sym("own_idx"), link>>, <<Num(1), Neg(max_flow)>>, "<=", Num(0))

\* consumes_flow_between built like requires_flow_between.
ConsumesWithOwn(incoming_link, outgoing_link) ==
    Constraint(<<incoming_link, outgoing_link, Sym("own_idx")>>,
               <<Num(1), Num(-1), Num(-1)>>, "=", Num(0))

ConsumesFlowBetween(incoming_link, outgoing_link) ==
    Constraint(<<incoming_link, outgoing_link>>, <<Num(1), Num(-1)>>, "=", Num(1))

RequiresFlowBetween(incoming_link, outgoing_link) ==
    Constraint(<<incoming_link, outgoing_link, Sym("own_idx")>>,
               <<Num(1), Num(-1), Num(-1)>>, "=", Num(0))

\* A template call that appends c and returns.
Template(op, self, args, c) ==
    /\ ncalls < MaxCalls
    /\ constraints' = [constraints EXCEPT ![self] = AddConstraint(@, c)]
    /\ targs' = args
    /\ Call(op, self, "", <<>>, NoIdx, NoOffsets, "ok")
    /\ UNCHANGED <<type, registry, coeff, grounding, upper_bound>>

\* Variable.general
general(self, terms, coeffs, op, rhs) ==
    Template("general", self, <<terms, coeffs, Sym(op), rhs>>,
             General(terms, coeffs, op, rhs))

\* Variable.iff
iff(self, link) == Template("iff", self, <<link>>, Iff(link))

\* Variable.iff_exactly
iff_exactly(self, N, link) ==
    Template("iff_exactly", self, <<N, link>>, IffExactly(N, link))

\* Variable.implies
implies(self, link) == Template("implies", self, <<link>>, Implies(link))

\* Variable.implies_at_least
implies_at_least(self, N, link) ==
    Template("implies_at_least", self, <<N, link>>, ImpliesAtLeast(N, link))

\* Variable.has_flow_over: the append, then self.upper_bound = max_flow.
has_flow_over(self, link, max_flow) ==
    /\ ncalls < MaxCalls
    /\ constraints' =
          [constraints EXCEPT ![self] = AddConstraint(@, HasFlowOver(link, max_flow))]
    /\ targs' = <<link, max_flow>>
    /\ IF SetAttr("upper_bound") = "ok"
       THEN upper_bound' = [upper_bound EXCEPT ![self] = max_flow[2]]
       ELSE UNCHANGED upper_bound
    /\ Call("has_flow_over", self, "", <<>>, NoIdx, NoOffsets, SetAttr("upper_bound"))
    /\ UNCHANGED <<type, registry, coeff, grounding>>

\* Variable.consumes_flow_between
consumes_flow_between(self, incoming_link, outgoing_link) ==
    Template("consumes_flow_between", self, <<incoming_link, outgoing_link>>,
             ConsumesFlowBetween(incoming_link, outgoing_link))

\* Variable.requires_flow_between
requires_flow_between(self, incoming_link, outgoing_link) ==
    Template("requires_flow_between", self, <<incoming_link, outgoing_link>>,
             RequiresFlowBetween(incoming_link, outgoing_link))

\* ---------------------------------------------------- coefficient, grounding

\* Variable.set_coeff
set_coeff(self, c) ==
    /\ ncalls < MaxCalls
    /\ coeff' = [coeff EXCEPT ![self] = c]
    /\ Call("set_coeff", self, "", <<>>, NoIdx, NoOffsets, "ok")
    /\ UNCHANGED <<type, registry, constraints, grounding, upper_bound, targs>>

\* dict.update(kwargs)
Update(d, kwargs) ==
    [k \in DOMAIN d \cup DOMAIN kwargs |-> IF k \in DOMAIN kwargs THEN kwargs[k] ELSE d[k]]

\* Variable.add_grounding
add_grounding(self, kwargs) ==
    /\ ncalls < MaxCalls
    /\ grounding' = [grounding EXCEPT ![self] = Update(@, kwargs)]
    /\ Call("add_grounding", self, "", <<>>, NoIdx, NoOffsets, "ok")
    /\ UNCHANGED <<type, registry, constraints, coeff, upper_bound, targs>>

\* retrieve_grounding, lines 205-211: the values of the names that are stored,
\* in the order asked; a name that is not stored is printed and skipped.
RECURSIVE Found(_, _)
Found(g, names) ==
    IF names = <<>> THEN <<>>
    ELSE IF Head(names) \in DOMAIN g
         THEN <<g[Head(names)]>> \o Found(g, Tail(names))
         ELSE Found(g, Tail(names))

\* Variable.retrieve_grounding: the value returned, a lone value or a list.
retrieve_grounding(self, names) ==
    LET values == Found(grounding[self], names)
    IN  IF Len(values) = 1 THEN Num(values[1]) ELSE <<"list", values>>

\* ----------------------------------------------------------- specification

\* Variable.__init__
Init ==
    /\ type \in TypeChoices
    /\ raw_linked_idxs = [v \in Vars |-> EmptyDict]
    /\ linked_type = [v \in Vars |-> EmptyDict]
    /\ linked_idxs = [v \in Vars |-> EmptyDict]
    /\ last = [op |-> "init", self |-> "", name |-> "", vars |-> <<>>, idx |-> NoIdx,
               offsets |-> NoOffsets, outcome |-> "ok", again |-> FALSE]
    /\ given = [v \in Vars |-> NoIdx]
    /\ applied = {}
    /\ ncalls = 0
    /\ constraints = [v \in Vars |-> <<>>]
    /\ coeff = [v \in Vars |-> 0]
    /\ grounding = [v \in Vars |-> EmptyDict]
    /\ upper_bound = [v \in Vars |-> NoIdx]
    /\ targs = <<>>

Next ==
    \/ \E self \in Vars, i \in RawIdx : set_idx(self, i)
    \/ \E self \in Vars, name \in Names, var \in Vars : add_link(self, name, var)
    \/ \E self \in Vars, name \in Names, vs \in VarSeqs : add_links(self, name, vs)
    \/ \E self \in Vars, offsets \in OffsetMaps : apply_offsets(self, offsets)

Spec == Init /\ [][Next]_vars

\* The link arguments of the templates: the link names, as Python strings.
Links == {Sym(n) : n \in Names}

Numbers == {Num(i) : i \in Scalars}

\* Every method: the template, coefficient and grounding calls are made on the
\* objects of Subjects, at any point of their life (before and after set_idx,
\* the linking calls and apply_offsets).
\* A run of SpecT makes at most MaxTCalls calls.
WithinT == ncalls < MaxTCalls

NextT ==
    \/ \E self \in Vars, i \in RawIdx :
          WithinT /\ set_idx(self, i)
    \/ \E self \in Subjects, name \in Names, var \in Vars :
          WithinT /\ add_link(self, name, var)
    \/ \E self \in Subjects, name \in Names, vs \in VarSeqs :
          WithinT /\ add_links(self, name, vs)
    \/ \E self \in Subjects, offsets \in OffsetMaps :
          WithinT /\ apply_offsets(self, offsets)
    \/ \E self \in Subjects :
          WithinT /\ general(self, <<Sym("foo")>>, <<Num(1)>>, ">=", Num(1))
    \/ \E self \in Subjects, link \in Links :
          WithinT /\ iff(self, link)
    \/ \E self \in Subjects, N \in Numbers, link \in Links :
          WithinT /\ iff_exactly(self, N, link)
    \/ \E self \in Subjects, link \in Links :
          WithinT /\ implies(self, link)
    \/ \E self \in Subjects, N \in Numbers, link \in Links :
          WithinT /\ implies_at_least(self, N, link)
    \/ \E self \in Subjects, link \in Links, max_flow \in Numbers :
          WithinT /\ has_flow_over(self, link, max_flow)
    \/ \E self \in Subjects, incoming_link \in Links, outgoing_link \in Links :
          WithinT /\ consumes_flow_between(self, incoming_link, outgoing_link)
    \/ \E self \in Subjects, incoming_link \in Links, outgoing_link \in Links :
          WithinT /\ requires_flow_between(self, incoming_link, outgoing_link)
    \/ \E self \in Subjects, c \in Scalars :
          WithinT /\ set_coeff(self, c)
    \/ \E self \in Subjects, kwargs \in GroundingArgs :
          WithinT /\ add_grounding(self, kwargs)

SpecT == Init /\ [][NextT]_vars

TypeOK ==
    /\ type \in [Vars -> Types]
    /\ \A v \in Vars :
          /\ DOMAIN raw_linked_idxs[v] \subseteq Names
          /\ DOMAIN linked_type[v] \subseteq Names
          /\ DOMAIN linked_idxs[v] \subseteq Names
    /\ applied \subseteq Vars
    /\ ncalls \in 0..MaxCalls

\* --------------------------------------------------------------- properties

\* The values a dict of lists / of sets holds under a name (none when absent).
Globals(self, n) ==
    IF n \in DOMAIN linked_idxs[self] THEN SeqRange(linked_idxs[self][n]) ELSE {}

Raws(self, n) ==
    IF n \in DOMAIN raw_linked_idxs[self] THEN raw_linked_idxs[self][n] ELSE {}

\* C1: add_link(n, B) on a variable whose link name n is already bound to a
\* type other than B.type raises, and B's raw index is not added to the link.
C1_ConflictRaises ==
    [][(/\ last'.op = "add_link"
        /\ last'.name \in DOMAIN linked_type[last'.self]
        /\ linked_type[last'.self][last'.name] # type[last'.vars[1]])
       => (/\ last'.outcome = "Exception"
           /\ raw_linked_idxs' = raw_linked_idxs
           /\ linked_type' = linked_type)]_vars

C1_Witness ==
    /\ last.op = "add_link"
    /\ last.outcome = "Exception"
    /\ raw_idx(last.vars[1]).outcome = "ok"

\* C2: two variables whose (type, raw own index) pairs differ have different
\* get_unique_id() values.
C2_UniqueIds ==
    \A v \in Vars, w \in Vars :
        (/\ get_unique_id(v).outcome = "ok"
         /\ get_unique_id(w).outcome = "ok"
         /\ <<type[v], raw_idx(v).value>> # <<type[w], raw_idx(w).value>>)
        => get_unique_id(v).value # get_unique_id(w).value

\* C3: after apply_offsets(offsets) on a variable on which set_idx was called,
\* every registered link whose bound type is in offsets has as global indices
\* exactly its raw indices plus the offset of its type, and idx() is raw_idx()
\* plus the offset of the variable's own type.
C3_OffsetsApplied ==
    (last.op = "apply_offsets" /\ given[last.self] # NoIdx) =>
        LET self == last.self
            offsets == last.offsets
        IN  /\ last.outcome = "ok"
            /\ \A n \in DOMAIN linked_type[self] :
                   linked_type[self][n] \in DOMAIN offsets =>
                      Globals(self, n) =
                         {r + offsets[linked_type[self][n]] : r \in Raws(self, n)}
            /\ type[self] \in DOMAIN offsets =>
                   /\ idx(self).outcome = "ok"
                   /\ raw_idx(self).outcome = "ok"
                   /\ idx(self).value = raw_idx(self).value + offsets[type[self]]

C3_Witness ==
    /\ last.op = "apply_offsets"
    /\ given[last.self] # NoIdx
    /\ "foo" \in DOMAIN raw_linked_idxs[last.self]
    /\ linked_type[last.self]["foo"] \in DOMAIN last.offsets
    /\ last.offsets[type[last.self]] > 0
    /\ idx(last.self).outcome = "ok"

\* C4: apply_offsets(offsets) on a variable with a registered link whose bound
\* type is not a key of offsets does not return normally.
C4_UnknownTypeRaises ==
    (/\ last.op = "apply_offsets"
     /\ \E n \in DOMAIN raw_linked_idxs[last.self] :
           linked_type[last.self][n] \notin DOMAIN last.offsets)
    => last.outcome # "ok"

\* C5: the linked_idxs present after apply_offsets(o) are what o yields from
\* raw_linked_idxs and linked_type alone, whatever earlier calls left there.
C5_NoAccumulation ==
    (last.op = "apply_offsets" /\ last.outcome = "ok") =>
        linked_idxs[last.self] =
            Translate(raw_linked_idxs[last.self], linked_type[last.self],
                      EmptyDict, last.offsets)

\* C6: add_link(n, B) right after a normally returning add_link(n, B) returns
\* normally and leaves raw_linked_idxs and linked_type as the first call left
\* them.
C6_DuplicateLinkIdempotent ==
    [][(last'.op = "add_link" /\ last'.again)
       => (/\ last'.outcome = "ok"
           /\ raw_linked_idxs' = raw_linked_idxs
           /\ linked_type' = linked_type)]_vars

C6_Witness ==
    /\ last.op = "add_link"
    /\ last.again
    /\ last.outcome = "ok"
    /\ Cardinality(raw_linked_idxs[last.self][last.name]) = 1

\* C7: whenever own_idx is present in raw_linked_idxs it is the singleton of
\* the index given to the most recent set_idx call.
C7_OwnIdxSingleton ==
    \A v \in Vars :
        "own_idx" \in DOMAIN raw_linked_idxs[v] =>
            /\ given[v] # NoIdx
            /\ raw_linked_idxs[v]["own_idx"] = {given[v]}

\* C8: once linked_type[n] has a value, no call changes it.
C8_LinkedTypeImmutable ==
    [][\A v \in Vars : \A n \in DOMAIN linked_type[v] :
          /\ n \in DOMAIN linked_type'[v]
          /\ linked_type'[v][n] = linked_type[v][n]]_vars

\* C9 (as claimed): every variable a successful add_link or add_links call
\* takes a raw index from has the type linked_type[n].
C9_AllContributorsTyped ==
    (last.op \in {"add_link", "add_links"} /\ last.outcome = "ok") =>
        \A k \in 1..Len(last.vars) :
            type[last.vars[k]] = linked_type[last.self][last.name]

Homogeneous(vs) == \A k \in 1..Len(vs) : type[vs[k]] = type[vs[1]]

\* C9 (amended): after a successful add_link the target's type is
\* linked_type[n]; after a successful add_links the first element's type is
\* linked_type[n], so all contributors have that type when the collection is of
\* one type.
C9_CheckedContributorsTyped ==
    (last.op \in {"add_link", "add_links"} /\ last.outcome = "ok") =>
        /\ last.name \in DOMAIN linked_type[last.self]
        /\ type[last.vars[1]] = linked_type[last.self][last.name]
        /\ Homogeneous(last.vars) =>
              \A k \in 1..Len(last.vars) :
                  type[last.vars[k]] = linked_type[last.self][last.name]

C9_Witness ==
    /\ last.op = "add_links"
    /\ last.outcome = "ok"
    /\ Homogeneous(last.vars)
    /\ Cardinality(raw_linked_idxs[last.self][last.name]) = 2

\* C10: idx() raises on a variable apply_offsets was not run on; raw_idx()
\* raises on a variable set_idx was never called on, and returns the raw index
\* given to set_idx once it was called.
C10_OrderingErrors ==
    \A v \in Vars :
        /\ v \notin applied => idx(v).outcome # "ok"
        /\ given[v] = NoIdx => raw_idx(v).outcome # "ok"
        /\ given[v] # NoIdx => raw_idx(v) = Ok(given[v])

\* C15: has_link(name) is true exactly when raw_linked_idxs has an entry for
\* name, in every reachable state.
C15_HasLinkIffRegistered ==
    \A v \in Vars, n \in Names :
        has_link(v, n) <=> n \in DOMAIN raw_linked_idxs[v]

\* C18: the names of linked_idxs are names of raw_linked_idxs, and linked_idxs
\* is empty on a variable apply_offsets was not yet called on.
C18_LinkedIdxsOnlyAfterOffsets ==
    \A v \in Vars :
        /\ DOMAIN linked_idxs[v] \subseteq DOMAIN raw_linked_idxs[v]
        /\ v \notin applied => DOMAIN linked_idxs[v] = {}

C18_Witness ==
    \E v \in applied, w \in Vars \ applied :
        /\ DOMAIN linked_idxs[v] # {}
        /\ DOMAIN linked_idxs[v] # DOMAIN raw_linked_idxs[v]
        /\ DOMAIN raw_linked_idxs[w] # {}

\* C19: an add_link or add_links call that raises leaves linked_type and
\* raw_linked_idxs as they were before the call.
C19_FailedLinkAtomic ==
    [][(last'.op \in {"add_link", "add_links"} /\ last'.outcome # "ok")
       => (/\ linked_type' = linked_type
           /\ raw_linked_idxs' = raw_linked_idxs)]_vars

\* The constraint a template call has just appended.
Appended == constraints[last.self][Len(constraints[last.self])]

Templates ==
    {"general", "iff", "iff_exactly", "implies", "implies_at_least",
     "has_flow_over", "consumes_flow_between", "requires_flow_between"}

\* C11: has_flow_over(link, max_flow) returns normally, sets the upper bound to
\* max_flow and appends the constraint ['own_idx', link], [1, -max_flow],
\* '<=', 0.
C11_HasFlowOver ==
    last.op = "has_flow_over" =>
        /\ last.outcome = "ok"
        /\ upper_bound[last.self] = targs[2][2]
        /\ Appended = [terms |-> <<Sym("own_idx"), targs[1]>>,
                       coeffs |-> <<Num(1), Num(0 - targs[2][2])>>,
                       op |-> "<=", rhs |-> Num(0)]

\* C12: a template call appends exactly one constraint at the end of the
\* constraints of its variable, keeps the earlier ones in their order, and
\* leaves raw_linked_idxs, linked_type and linked_idxs unchanged.
C12_TemplateAppendsOne ==
    [][last'.op \in Templates =>
         LET self == last'.self
         IN  /\ Len(constraints'[self]) = Len(constraints[self]) + 1
             /\ SubSeq(constraints'[self], 1, Len(constraints[self]))
                   = constraints[self]
             /\ \A w \in Vars \ {self} : constraints'[w] = constraints[w]
             /\ raw_linked_idxs' = raw_linked_idxs
             /\ linked_type' = linked_type
             /\ linked_idxs' = linked_idxs]_vars

C12_Witness ==
    /\ last.op \in Templates
    /\ Len(constraints[last.self]) >= 2
    /\ constraints[last.self][1] # constraints[last.self][2]
    /\ given[last.self] = NoIdx
    /\ last.self \notin applied

\* C13: the constraints implies(link) and iff(link) append have the terms
\* ['own_idx', link], the same coefficients and the right-hand side 0, and
\* differ only in the operator: '<=' for implies, '=' for iff.
C13_ImpliesLikeIff ==
    /\ last.op = "implies" =>
          /\ Appended = [Iff(targs[1]) EXCEPT !.op = "<="]
          /\ Appended.terms = <<Sym("own_idx"), targs[1]>>
          /\ Appended.rhs = Num(0)
    /\ last.op = "iff" =>
          /\ Appended = [Implies(targs[1]) EXCEPT !.op = "="]
          /\ Appended.terms = <<Sym("own_idx"), targs[1]>>
          /\ Appended.rhs = Num(0)

C13_Witness ==
    /\ last.op = "implies"
    /\ Len(constraints[last.self]) >= 2
    /\ constraints[last.self][Len(constraints[last.self]) - 1]
          = [Appended EXCEPT !.op = "="]

\* C14 (as claimed): consumes_flow_between(incoming, outgoing) appends the
\* constraint [incoming, outgoing], [1, -1], '=', 1, in which the own_idx term
\* does not appear.
C14_ConsumesFlowNoOwn ==
    last.op = "consumes_flow_between" =>
        /\ Appended = [terms |-> <<targs[1], targs[2]>>,
                       coeffs |-> <<Num(1), Num(-1)>>, op |-> "=", rhs |-> Num(1)]
        /\ Sym("own_idx") \notin SeqRange(Appended.terms)

\* C14 (amended): the constraint is [incoming, outgoing], [1, -1], '=', 1; the
\* own_idx term appears in it only when own_idx is passed as incoming or
\* outgoing.
C14_ConsumesFlowTerms ==
    last.op = "consumes_flow_between" =>
        /\ Appended = [terms |-> <<targs[1], targs[2]>>,
                       coeffs |-> <<Num(1), Num(-1)>>, op |-> "=", rhs |-> Num(1)]
        /\ Sym("own_idx") \notin {targs[1], targs[2]} =>
              Sym("own_idx") \notin SeqRange(Appended.terms)

C14_Witness ==
    /\ last.op = "consumes_flow_between"
    /\ targs = <<Sym("foo"), Sym("foo")>>
    /\ "foo" \in DOMAIN raw_linked_idxs[last.self]

\* C16: a retrieve_grounding call with a requested name that is not stored
\* returns something no call with all its requested names stored returns.
C16_MissingKeyDistinct ==
    \A v \in Vars, asked \in AttribSeqs, stored \in AttribSeqs :
        (/\ \E k \in 1..Len(asked) : asked[k] \notin DOMAIN grounding[v]
         /\ \A k \in 1..Len(stored) : stored[k] \in DOMAIN grounding[v])
        => retrieve_grounding(v, asked) # retrieve_grounding(v, stored)

\* C17: apply_offsets leaves type, raw_linked_idxs, linked_type, constraints,
\* coeff and grounding unchanged, so raw_idx() and get_unique_id() return the
\* same before and after it.
C17_OffsetsWriteOnlyLinkedIdxs ==
    [][last'.op = "apply_offsets" =>
         /\ type' = type
         /\ raw_linked_idxs' = raw_linked_idxs
         /\ linked_type' = linked_type
         /\ constraints' = constraints
         /\ coeff' = coeff
         /\ grounding' = grounding
         /\ \A v \in Vars :
               /\ raw_idx(v)' = raw_idx(v)
               /\ get_unique_id(v)' = get_unique_id(v)]_vars

C17_Witness ==
    /\ last.op = "apply_offsets"
    /\ constraints[last.self] # <<>>
    /\ get_unique_id(last.self).outcome = "ok"
    /\ idx(last.self).outcome = "ok"
    /\ idx(last.self).value # raw_idx(last.self).value
====
